---- MODULE Spec2Model ----
(***************************************************************************)
(* A model of the PDF processing pipeline of process.py: the classifier    *)
(* (is_digital_pdf), the OCR stage (run_ocr), the image extraction stage   *)
(* (extract_images), the index builder (build_index_json), the manual      *)
(* indexer (build_from_images) and the two batch loops driven from main(). *)
(*                                                                         *)
(* Python strings that the program takes apart or puts together (file      *)
(* names, stems, tool output) are sequences of one-character strings.      *)
(* String literals that the program only stores ("private", "") are TLA+   *)
(* strings.  A directory is a function from file names to file contents.   *)
(***************************************************************************)
EXTENDS Integers, Sequences, FiniteSets, TLC

VARIABLES platform, input_dir, ocr_dir, images_dir, meta_dir, pc, pending, combined, last

vars == <<platform, input_dir, ocr_dir, images_dir, meta_dir, pc, pending, combined, last>>

(***************************************************************************)
(* Bounds of the model.                                                    *)
(***************************************************************************)
\* the largest number of raster images pdfimages writes for one PDF
MaxImg == 2
\* the largest number of characters of a font report
MaxOut == 4
\* the largest number of entries of a folder handed to the manual indexer
MaxFolder == 3

(***************************************************************************)
(* Characters and strings.                                                 *)
(***************************************************************************)
\* the characters the model uses, in code point order
Alphabet ==
  << "\n", " ", "-", ".", "/",
     "0", "1", "2", "3", "4", "5", "6", "7", "8", "9",
     "A", "B", "C", "D", "E", "F", "G", "H", "I", "J", "K", "L", "M",
     "N", "O", "P", "Q", "R", "S", "T", "U", "V", "W", "X", "Y", "Z",
     "_",
     "a", "b", "c", "d", "e", "f", "g", "h", "i", "j", "k", "l", "m",
     "n", "o", "p", "q", "r", "s", "t", "u", "v", "w", "x", "y", "z" >>

\* ord(c), up to an order-preserving renumbering
Ord == [c \in {Alphabet[i] : i \in 1..Len(Alphabet)} |->
          CHOOSE i \in 1..Len(Alphabet) : Alphabet[i] = c]

FirstUpper == Ord["A"]
FirstLower == Ord["a"]
FirstDigit == Ord["0"]

\* str.lower() on one character
LowerChar(c) ==
  IF Ord[c] >= FirstUpper /\ Ord[c] <= Ord["Z"]
    THEN Alphabet[Ord[c] - FirstUpper + FirstLower]
    ELSE c

\* str.lower()
Lower(s) == [i \in 1..Len(s) |-> LowerChar(s[i])]

\* str.isspace() on one character
IsSpace(c) == c \in {" ", "\n"}

\* s[i:] and s[:i] with Python's 0-based index i
From(s, i) == SubSeq(s, i + 1, Len(s))
Upto(s, i) == SubSeq(s, 1, i)

\* s.rfind(c): the 0-based index of the last c in s, -1 when there is none
RFind(s, c) ==
  LET hits == {i \in 1..Len(s) : s[i] = c}
  IN  IF hits = {} THEN -1 ELSE (CHOOSE i \in hits : \A j \in hits : j <= i) - 1

StartsWith(s, p) == Len(s) >= Len(p) /\ SubSeq(s, 1, Len(p)) = p
EndsWith(s, p) == Len(s) >= Len(p) /\ SubSeq(s, Len(s) - Len(p) + 1, Len(s)) = p

\* str(n) for n >= 0
RECURSIVE Decimal(_)
Decimal(n) ==
  IF n < 10 THEN <<Alphabet[FirstDigit + n]>>
  ELSE Decimal(n \div 10) \o <<Alphabet[FirstDigit + (n % 10)]>>

\* "%03d" % n, the numbering pdfimages gives its output files
Pad3(n) ==
  LET d == Decimal(n)
  IN  IF Len(d) >= 3 THEN d
      ELSE IF Len(d) = 2 THEN <<"0">> \o d
      ELSE <<"0", "0">> \o d

\* lexicographic order of two strings by code point
RECURSIVE StrLess(_, _)
StrLess(a, b) ==
  IF b = <<>> THEN FALSE
  ELSE IF a = <<>> THEN TRUE
  ELSE IF Ord[Head(a)] < Ord[Head(b)] THEN TRUE
  ELSE IF Ord[Head(a)] > Ord[Head(b)] THEN FALSE
  ELSE StrLess(Tail(a), Tail(b))

(***************************************************************************)
(* pathlib.                                                                *)
(***************************************************************************)
Platforms == {"posix", "windows"}

\* the flavour's case normalisation: identity on POSIX, lower case on Windows
NormCase(pf, s) == IF pf = "windows" THEN Lower(s) ELSE s

\* PurePath.__lt__ for two entries of one directory
PathLess(pf, a, b) == StrLess(NormCase(pf, a), NormCase(pf, b))

\* PurePath.suffix of a file name
Suffix(name) ==
  LET i == RFind(name, ".")
  IN  IF 0 < i /\ i < Len(name) - 1 THEN From(name, i) ELSE <<>>

\* PurePath.stem of a file name
Stem(name) ==
  LET i == RFind(name, ".")
  IN  IF 0 < i /\ i < Len(name) - 1 THEN Upto(name, i) ELSE name

\* sorted(paths) for the entries of one directory
RECURSIVE Sorted(_, _)
Sorted(pf, S) ==
  IF S = {} THEN <<>>
  ELSE LET m == CHOOSE x \in S : \A y \in S \ {x} : ~PathLess(pf, y, x)
       IN  <<m>> \o Sorted(pf, S \ {m})

\* Path.glob(prefix + "*" + suffix) on one file name
GlobMatch(pf, name, prefix, suffix) ==
  /\ Len(name) >= Len(prefix) + Len(suffix)
  /\ StartsWith(NormCase(pf, name), NormCase(pf, prefix))
  /\ EndsWith(NormCase(pf, name), NormCase(pf, suffix))

(***************************************************************************)
(* The external tools: run_cmd.                                            *)
(***************************************************************************)
\* exit statuses: 0, and 1 for every non-zero status
ExitCodes == {0, 1}

\* What subprocess.run does with a command whose standard output is one of
\* outs: it raises (the executable cannot be started, or the captured
\* output cannot be decoded), or it returns the exit status and the output.
run_cmd(outs) ==
  {[raised |-> TRUE, code |-> 1, out |-> <<>>]} \cup
  {[raised |-> FALSE, code |-> c, out |-> o] : c \in ExitCodes, o \in outs}

(***************************************************************************)
(* The classifier: is_digital_pdf.                                         *)
(***************************************************************************)
\* str.strip()
RECURSIVE LStrip(_)
LStrip(s) == IF s # <<>> /\ IsSpace(Head(s)) THEN LStrip(Tail(s)) ELSE s

RECURSIVE RStrip(_)
RStrip(s) ==
  IF s # <<>> /\ IsSpace(s[Len(s)]) THEN RStrip(SubSeq(s, 1, Len(s) - 1)) ELSE s

Strip(s) == RStrip(LStrip(s))

\* str.splitlines() for the line boundary "\n"
RECURSIVE SplitLines(_)
SplitLines(s) ==
  IF s = <<>> THEN <<>>
  ELSE LET nl == {i \in 1..Len(s) : s[i] = "\n"}
       IN  IF nl = {} THEN <<s>>
           ELSE LET i == CHOOSE k \in nl : \A j \in nl : k <= j
                IN  <<SubSeq(s, 1, i - 1)>> \o SplitLines(SubSeq(s, i + 1, Len(s)))

\* the number of lines above which a font report lists a font
HeaderLines == 2

\* is_digital_pdf on the standard output of pdffonts
is_digital_pdf(out) == Len(SplitLines(Strip(out))) > HeaderLines

(***************************************************************************)
(* The OCR stage: run_ocr.                                                 *)
(***************************************************************************)
\* what one run of ocrmypdf does to its output file
OcrEffects == {"none", "empty", "full"}

\* the OCR output directory after ocrmypdf ran with output file name
AfterOcrTool(dir, name, effect) ==
  IF effect = "none" THEN dir
  ELSE [f \in DOMAIN dir \cup {name} |->
          IF f = name THEN (IF effect = "full" THEN 1 ELSE 0) ELSE dir[f]]

\* run_ocr as it would be if it trusted the exit status of ocrmypdf
run_ocr_by_status(dir, name, code) == code = 0

\* run_ocr's result: output_pdf.exists() and output_pdf.stat().st_size > 0
run_ocr(dir, name, code) == name \in DOMAIN dir /\ dir[name] > 0

\* f"{pdf_stem}_ocr.pdf"
OcrName(stem) == stem \o <<"_", "o", "c", "r", ".", "p", "d", "f">>

(***************************************************************************)
(* The image extraction stage: extract_images.                             *)
(***************************************************************************)
RawTag == <<"_", "R", "A", "W", "_">>
DotPng == <<".", "p", "n", "g">>

\* f"{pdf_stem}_RAW_"
RawPrefix(stem) == stem \o RawTag

\* the name pdfimages gives image number i under a prefix
RawName(stem, i) == RawPrefix(stem) \o <<"-">> \o Pad3(i) \o DotPng

\* f"F{idx}.png"
FigureName(idx) == <<"F">> \o Decimal(idx) \o DotPng

\* images_dir.glob(f"{pdf_stem}_RAW_*.png")
RawFiles(pf, dir, stem) ==
  {f \in DOMAIN dir : GlobMatch(pf, f, RawPrefix(stem), DotPng)}

\* a directory without the files of S
Unlink(dir, S) == [f \in DOMAIN dir \ S |-> dir[f]]

\* a directory after name was written with content c
WriteFile(dir, name, c) ==
  [f \in DOMAIN dir \cup {name} |-> IF f = name THEN c ELSE dir[f]]

\* pdfimages -png: n images of the PDF written under the prefix
RECURSIVE AfterPdfimages(_, _, _)
AfterPdfimages(dir, stem, n) ==
  IF n = 0 THEN dir
  ELSE WriteFile(AfterPdfimages(dir, stem, n - 1), RawName(stem, n - 1),
                 [doc |-> stem, img |-> n - 1])

\* "data/research_center/"
ArchiveRoot ==
  << "d", "a", "t", "a", "/", "r", "e", "s", "e", "a", "r", "c", "h", "_",
     "c", "e", "n", "t", "e", "r", "/" >>

\* the figure record extract_images appends for a converted image
ExtractedFigure(pdf_stem, new_name) ==
  << <<"figure_ID", new_name>>,
     <<"caption", "">>,
     <<"image_path", ArchiveRoot \o pdf_stem \o <<"/">> \o new_name>> >>

\* the loop over the sorted raw images, from position idx on; bad holds the
\* raw files that Image.open raises on, before anything is written
RECURSIVE ConvertFrom(_, _, _, _, _, _)
ConvertFrom(dir, stem, raw_images, idx, bad, figures) ==
  IF idx > Len(raw_images) THEN [dir |-> dir, figures |-> figures]
  ELSE LET raw_img == raw_images[idx]
           new_name == FigureName(idx)
       IN  IF raw_img \in bad
             THEN ConvertFrom(dir, stem, raw_images, idx + 1, bad, figures)
             ELSE ConvertFrom(Unlink(WriteFile(dir, new_name, dir[raw_img]), {raw_img}),
                              stem, raw_images, idx + 1, bad,
                              Append(figures, ExtractedFigure(stem, new_name)))

\* the files extract_images deletes before it runs pdfimages
Leftovers(pf, dir, stem) == RawFiles(pf, dir, stem)

\* extract_images once pdfimages has returned, having written n images, of
\* which those numbered in corrupt cannot be converted
extract_images(pf, dir, stem, n, corrupt) ==
  LET cleaned == Unlink(dir, Leftovers(pf, dir, stem))
      written == AfterPdfimages(cleaned, stem, n)
      raw_images == Sorted(pf, RawFiles(pf, written, stem))
  IN  ConvertFrom(written, stem, raw_images, 1,
                  {RawName(stem, i) : i \in corrupt}, <<>>)

(***************************************************************************)
(* The index builder and the manual indexer.                               *)
(***************************************************************************)
\* Python's None
None == [py |-> "None"]

DotPdf == <<".", "p", "d", "f">>

\* f"{paper_id}_index.JSON"
IndexName(paper_id) ==
  paper_id \o <<"_", "i", "n", "d", "e", "x", ".", "J", "S", "O", "N">>

\* the dictionary build_index_json dumps, as its items in order
IndexRecord(pdf_name, pdf_stem, figures) ==
  << <<"paper_ID", pdf_stem>>,
     <<"access", "private">>,
     <<"paper_access", "private">>,
     <<"paper_title", "">>,
     <<"authors", <<>> >>,
     <<"pdf_id", pdf_name>>,
     <<"pdf_path", ArchiveRoot \o pdf_stem \o <<"/">> \o pdf_name>>,
     <<"year", None>>,
     <<"journal", "">>,
     <<"figures", figures>>,
     <<"citation", << <<"APA", "">> >> >> >>

\* build_index_json as it would be if it kept the title of an existing index
build_index_json_merging(dir, pdf_name, pdf_stem, figures) ==
  LET name == IndexName(pdf_stem)
      fresh == IndexRecord(pdf_name, pdf_stem, figures)
  IN  [f \in DOMAIN dir \cup {name} |->
         IF f # name THEN dir[f]
         ELSE IF name \in DOMAIN dir
           THEN [i \in 1..Len(fresh) |->
                   IF fresh[i][1] = "paper_title" THEN dir[name][i] ELSE fresh[i]]
           ELSE fresh]

\* build_index_json: the metadata directory after the dump
build_index_json(dir, pdf_name, pdf_stem, figures) ==
  WriteFile(dir, IndexName(pdf_stem), IndexRecord(pdf_name, pdf_stem, figures))

ImageSuffixes == {DotPng, <<".", "j", "p", "g">>, <<".", "j", "p", "e", "g">>}

\* the image entries of a folder as they would be with a case-sensitive filter
ImageFiles_case_sensitive(pf, entries) ==
  Sorted(pf, {p \in entries : Suffix(p) \in ImageSuffixes})

\* the sorted image entries of a folder
ImageFiles(pf, entries) ==
  Sorted(pf, {p \in entries : Lower(Suffix(p)) \in ImageSuffixes})

\* the figure record build_from_images appends for an image file
ManualFigure(paper_id, image_name) ==
  << <<"figure_ID", image_name>>,
     <<"caption", "">>,
     <<"image_path", ArchiveRoot \o paper_id \o <<"/">> \o image_name>> >>

\* the figure list of the manual indexer
ManualFigures(paper_id, image_files) ==
  [i \in 1..Len(image_files) |-> ManualFigure(paper_id, image_files[i])]

\* the dictionary of build_from_images as it would be with pdf_path before pdf_id
ManualRecord_reordered(paper_id, figures) ==
  << <<"paper_ID", paper_id>>,
     <<"access", "private">>,
     <<"paper_access", "private">>,
     <<"paper_title", "">>,
     <<"authors", <<>> >>,
     <<"pdf_path", ArchiveRoot \o paper_id \o <<"/">> \o paper_id \o DotPdf>>,
     <<"pdf_id", paper_id \o DotPdf>>,
     <<"year", None>>,
     <<"journal", "">>,
     <<"figures", figures>>,
     <<"citation", << <<"APA", "">> >> >> >>

\* the dictionary build_from_images dumps, as its items in order
ManualRecord(paper_id, figures) ==
  << <<"paper_ID", paper_id>>,
     <<"access", "private">>,
     <<"paper_access", "private">>,
     <<"paper_title", "">>,
     <<"authors", <<>> >>,
     <<"pdf_id", paper_id \o DotPdf>>,
     <<"pdf_path", ArchiveRoot \o paper_id \o <<"/">> \o paper_id \o DotPdf>>,
     <<"year", None>>,
     <<"journal", "">>,
     <<"figures", figures>>,
     <<"citation", << <<"APA", "">> >> >> >>

\* build_from_images on an existing folder: the metadata directory after
\* it, and whether it got as far as the dump
build_from_images(pf, dir, paper_id, entries) ==
  LET image_files == ImageFiles(pf, entries)
  IN  IF image_files = <<>> THEN [dir |-> dir, wrote |-> FALSE]
      ELSE [dir |-> WriteFile(dir, IndexName(paper_id),
                              ManualRecord(paper_id, ManualFigures(paper_id, image_files))),
            wrote |-> TRUE]

\* the value of a key of a dumped dictionary
Field(rec, key) == rec[CHOOSE i \in 1..Len(rec) : rec[i][1] = key][2]

\* the paper_title an index file holds, "absent" when there is no such file
TitleOf(dir, name) ==
  IF name \in DOMAIN dir THEN Field(dir[name], "paper_title") ELSE "absent"

\* the figure_IDs of a figure list
FigureIds(figures) == [i \in 1..Len(figures) |-> figures[i][1][2]]

(***************************************************************************)
(* The inputs the model draws from.                                        *)
(***************************************************************************)
\* the PDFs that may lie in input/
PdfPool == { <<"a", ".", "p", "d", "f">>, <<"B", ".", "p", "d", "f">> }

\* a file of input/ that is no PDF
OtherInput == { <<"n", ".", "t", "x", "t">> }

\* font reports: nothing, the two header lines, the header and one font
FontReports ==
  { <<>>,
    <<"x", "\n", "-", "\n">>,
    <<"x", "\n", "-", "\n", "x", "\n">> }

\* every tool output of at most n characters
ReportChars == {"x", "\n", " "}
Reports(n) == UNION {[1..k -> ReportChars] : k \in 0..n}

\* the entries a folder handed to the manual indexer may hold
FolderPool ==
  { <<"a", ".", "p", "n", "g">>, <<"B", ".", "J", "P", "G">>,
    <<"s", "k", "i", "p", ".", "t", "x", "t">>, <<"c", ".", "j", "p", "e", "g">>,
    <<".", "p", "n", "g">> }

Folders == {S \in SUBSET FolderPool : Cardinality(S) <= MaxFolder}

\* what the user types as a paper ID
PaperInputs == { <<" ">>, <<" ", "a", " ">> }

(***************************************************************************)
(* The program.                                                            *)
(***************************************************************************)
EmptyDir == <<>>

Idle == [op |-> "none"]

Init ==
  /\ platform \in Platforms
  /\ \E S \in SUBSET PdfPool : input_dir = S \cup OtherInput
  /\ ocr_dir = EmptyDir
  /\ images_dir = EmptyDir
  /\ meta_dir = EmptyDir
  /\ pc = "menu"
  /\ pending = <<>>
  /\ combined = FALSE
  /\ last = Idle

\* the same with one PDF in input/
InitOne ==
  /\ Init
  /\ input_dir = {CHOOSE f \in PdfPool : Stem(f) = <<"a">>} \cup OtherInput

\* sorted(self.input_dir.glob("*.pdf"))
Pdfs == Sorted(platform, {f \in input_dir : GlobMatch(platform, f, <<>>, DotPdf)})

\* the loop goes on to the next PDF, or the batch operation returns
Advance ==
  IF Tail(pending) # <<>>
    THEN /\ pending' = Tail(pending)
         /\ UNCHANGED <<pc, combined>>
    ELSE IF pc = "ocr" /\ combined
      THEN /\ pc' = "extract"
           /\ pending' = Pdfs
           /\ combined' = FALSE
      ELSE /\ pc' = "menu"
           /\ pending' = <<>>
           /\ combined' = FALSE

\* an exception leaves the loop, the batch operation and main()
Crash ==
  /\ pc' = "crashed"
  /\ UNCHANGED <<pending, combined>>

\* menu choice 1, ocr_only_all up to its loop
ChooseOcr ==
  /\ pc = "menu"
  /\ IF Pdfs = <<>>
       THEN /\ last' = [op |-> "no_pdfs"]
            /\ UNCHANGED <<pc, pending, combined>>
       ELSE /\ pc' = "ocr"
            /\ pending' = Pdfs
            /\ last' = Idle
            /\ UNCHANGED combined
  /\ UNCHANGED <<platform, input_dir, ocr_dir, images_dir, meta_dir>>

\* menu choice 4, ocr_only_all then extract_images_and_json_all
ChooseBoth ==
  /\ pc = "menu"
  /\ IF Pdfs = <<>>
       THEN /\ last' = [op |-> "no_pdfs"]
            /\ UNCHANGED <<pc, pending, combined>>
       ELSE /\ pc' = "ocr"
            /\ pending' = Pdfs
            /\ combined' = TRUE
            /\ last' = Idle
  /\ UNCHANGED <<platform, input_dir, ocr_dir, images_dir, meta_dir>>

\* one pass of the loop of ocr_only_all
OcrStep ==
  /\ pc = "ocr"
  /\ LET pdf == Head(pending)
         ocr_pdf == OcrName(Stem(pdf))
     IN  \E fonts \in run_cmd(FontReports) :
           IF fonts.raised
             THEN /\ Crash
                  /\ last' = [op |-> "ocr", pdf |-> pdf, raised |-> "pdffonts"]
                  /\ UNCHANGED ocr_dir
           ELSE IF is_digital_pdf(fonts.out)
             THEN /\ Advance
                  /\ last' = [op |-> "ocr", pdf |-> pdf, raised |-> "no", digital |-> TRUE]
                  /\ UNCHANGED ocr_dir
           ELSE \E tool \in run_cmd({<<>>}), effect \in OcrEffects :
                  IF tool.raised
                    THEN /\ Crash
                         /\ last' = [op |-> "ocr", pdf |-> pdf, raised |-> "ocrmypdf"]
                         /\ UNCHANGED ocr_dir
                    ELSE LET after == AfterOcrTool(ocr_dir, ocr_pdf, effect)
                             ok == run_ocr(after, ocr_pdf, tool.code)
                         IN  /\ ocr_dir' = after
                             /\ Advance
                             /\ last' = [op |-> "ocr", pdf |-> pdf, raised |-> "no",
                                         digital |-> FALSE, code |-> tool.code,
                                         effect |-> effect, ok |-> ok,
                                         printed |-> IF ok THEN "output" ELSE "error"]
  /\ UNCHANGED <<platform, input_dir, images_dir, meta_dir>>

\* menu choice 2, extract_images_and_json_all up to its loop
ChooseExtract ==
  /\ pc = "menu"
  /\ IF Pdfs = <<>>
       THEN /\ last' = [op |-> "no_pdfs"]
            /\ UNCHANGED <<pc, pending>>
       ELSE /\ pc' = "extract"
            /\ pending' = Pdfs
            /\ last' = Idle
  /\ UNCHANGED <<platform, input_dir, ocr_dir, images_dir, meta_dir, combined>>

\* one pass of the loop of extract_images_and_json_all
ExtractStep ==
  /\ pc = "extract"
  /\ LET pdf == Head(pending)
         stem == Stem(pdf)
     IN  \E fonts \in run_cmd(FontReports) :
           IF fonts.raised
             THEN /\ Crash
                  /\ last' = [op |-> "extract", pdf |-> pdf, raised |-> "pdffonts"]
                  /\ UNCHANGED <<images_dir, meta_dir>>
           ELSE IF ~is_digital_pdf(fonts.out)
             THEN /\ Advance
                  /\ meta_dir' = build_index_json(meta_dir, pdf, stem, <<>>)
                  /\ last' = [op |-> "extract", pdf |-> pdf, raised |-> "no",
                              digital |-> FALSE, n |-> 0, corrupt |-> {},
                              figures |-> <<>>,
                              before |-> TitleOf(meta_dir, IndexName(stem))]
                  /\ UNCHANGED images_dir
           ELSE \E tool \in run_cmd({<<>>}) :
                  IF tool.raised
                    THEN /\ Crash
                         /\ images_dir' = Unlink(images_dir, Leftovers(platform, images_dir, stem))
                         /\ last' = [op |-> "extract", pdf |-> pdf, raised |-> "pdfimages"]
                         /\ UNCHANGED meta_dir
                    ELSE \E n \in 0..MaxImg :
                         \E corrupt \in SUBSET (0..(n - 1)) :
                           \E r \in {extract_images(platform, images_dir, stem, n, corrupt)} :
                               /\ images_dir' = r.dir
                               /\ meta_dir' = build_index_json(meta_dir, pdf, stem, r.figures)
                               /\ Advance
                               /\ last' = [op |-> "extract", pdf |-> pdf, raised |-> "no",
                                           digital |-> TRUE, n |-> n, corrupt |-> corrupt,
                                           figures |-> r.figures,
                                           before |-> TitleOf(meta_dir, IndexName(stem))]
  /\ UNCHANGED <<platform, input_dir, ocr_dir>>

\* menu choice 3 with the default folder or a folder the user names
ChooseManual ==
  /\ pc = "menu"
  /\ \E typed \in PaperInputs :
       LET paper_id == Strip(typed)
       IN  IF paper_id = <<>>
             THEN /\ last' = [op |-> "manual", paper_id |-> paper_id, blank |-> TRUE]
                  /\ UNCHANGED meta_dir
             ELSE \/ /\ last' = [op |-> "manual", paper_id |-> paper_id,
                                  blank |-> FALSE, exists |-> FALSE]
                     /\ UNCHANGED meta_dir
                  \/ \E entries \in {DOMAIN images_dir} \cup Folders :
                     \E r \in {build_from_images(platform, meta_dir, paper_id, entries)} :
                       /\ meta_dir' = r.dir
                       /\ last' = [op |-> "manual", paper_id |-> paper_id,
                                   blank |-> FALSE, exists |-> TRUE, entries |-> entries,
                                   wrote |-> r.wrote,
                                   before |-> TitleOf(meta_dir, IndexName(paper_id))]
  /\ UNCHANGED <<platform, input_dir, ocr_dir, images_dir, pc, pending, combined>>

\* a figure record with a caption somebody typed in
EditedFigure(fig) == <<fig[1], <<"caption", "edited">>, fig[3]>>

\* an index with a title and captions somebody typed in
EditedRecord(rec) ==
  [i \in 1..Len(rec) |->
     IF rec[i][1] = "paper_title" THEN <<"paper_title", "edited">>
     ELSE IF rec[i][1] = "figures"
       THEN <<"figures", [k \in 1..Len(rec[i][2]) |-> EditedFigure(rec[i][2][k])]>>
     ELSE rec[i]]

\* somebody edits an index file between two menu choices
EditIndex ==
  /\ pc = "menu"
  /\ \E f \in DOMAIN meta_dir :
       /\ meta_dir' = WriteFile(meta_dir, f, EditedRecord(meta_dir[f]))
       /\ last' = [op |-> "edit", file |-> f]
  /\ UNCHANGED <<platform, input_dir, ocr_dir, images_dir, pc, pending, combined>>

\* menu choice 5
Quit ==
  /\ pc = "menu"
  /\ pc' = "quit"
  /\ last' = Idle
  /\ UNCHANGED <<platform, input_dir, ocr_dir, images_dir, meta_dir, pending, combined>>

\* a call of is_digital_pdf with any outcome of pdffonts
Classify ==
  /\ pc = "menu"
  /\ \E fonts \in run_cmd(Reports(MaxOut)) :
       last' = [op |-> "classify", raised |-> fonts.raised, code |-> fonts.code,
                out |-> fonts.out,
                digital |-> IF fonts.raised THEN FALSE ELSE is_digital_pdf(fonts.out)]
  /\ UNCHANGED <<platform, input_dir, ocr_dir, images_dir, meta_dir, pc, pending, combined>>

Next ==
  \/ ChooseOcr
  \/ ChooseExtract
  \/ ChooseManual
  \/ ChooseBoth
  \/ OcrStep
  \/ ExtractStep
  \/ EditIndex
  \/ Quit

Spec == Init /\ [][Next]_vars

\* the OCR batch alone
NextOcr == ChooseOcr \/ OcrStep \/ Quit
SpecOcr == Init /\ [][NextOcr]_vars

\* the extraction batch alone
NextExtract == ChooseExtract \/ ExtractStep \/ Quit
SpecExtract == Init /\ [][NextExtract]_vars

\* the two batch operations, alone and one after the other
NextBatch == ChooseOcr \/ ChooseExtract \/ ChooseBoth \/ OcrStep \/ ExtractStep \/ Quit
SpecBatch == Init /\ [][NextBatch]_vars

\* the two writers of index files and an editor
NextIndex == ChooseExtract \/ ExtractStep \/ ChooseManual \/ EditIndex
SpecIndex == InitOne /\ [][NextIndex]_vars

\* the manual indexer alone
SpecManual == Init /\ [][ChooseManual]_vars

\* the classifier alone
SpecClassify == Init /\ [][Classify]_vars

(***************************************************************************)
(* The claims.                                                             *)
(***************************************************************************)
\* the last step was a pass of the extraction loop in which extract_images returned
Extracted == last.op = "extract" /\ last.raised = "no" /\ last.digital

\* the last step was a pass of the OCR loop in which run_ocr returned
OcrReturned == last.op = "ocr" /\ last.raised = "no" /\ ~last.digital

\* the last step was a call of build_from_images that dumped an index
ManualWrote == last.op = "manual" /\ ~last.blank /\ last.exists /\ last.wrote

\* C1: the figure list extract_images returns is numbered F1.png, F2.png, ...,
\* Fk.png for its k converted images, whichever raw images failed conversion.
C1_DenseNumbering ==
  Extracted =>
    FigureIds(last.figures) = [i \in 1..Len(last.figures) |-> FigureName(i)]

\* C2: once extract_images has returned, the images directory holds no
\* {stem}_RAW_*.png file of the document, whichever raw images failed conversion.
C2_NoRawResidue ==
  Extracted => RawFiles(platform, images_dir, Stem(last.pdf)) = {}

\* C3: run_ocr returns true exactly if, after ocrmypdf has ended, the output
\* file exists and is not empty, whatever the exit status was.
C3_OcrResultIsOutputCheck ==
  OcrReturned =>
    LET ocr_pdf == OcrName(Stem(last.pdf))
    IN  last.ok = (ocr_pdf \in DOMAIN ocr_dir /\ ocr_dir[ocr_pdf] # 0)

\* ocrmypdf exits with 0 and leaves an empty output file, and run_ocr returns false
C3_Witness ==
  /\ OcrReturned
  /\ last.code = 0
  /\ last.effect = "empty"
  /\ ~last.ok

\* C4: a failure of the OCR transformer or of the raster extractor for one
\* document never stops a batch operation while later PDFs wait for their turn.
C4_BatchSurvivesFailure ==
  (pc = "crashed" /\ last.raised \in {"ocrmypdf", "pdfimages"}) =>
    Tail(pending) = <<>>

\* C5: the extraction for one document leaves every image file that came
\* from another document as it was.
C5_OtherDocumentsUntouched ==
  [][pc = "extract" =>
       \A f \in DOMAIN images_dir :
         images_dir[f].doc # Stem(Head(pending)) =>
           f \in DOMAIN images_dir' /\ images_dir'[f] = images_dir[f]]_vars

\* the folder of the example: a.png, B.JPG and skip.txt
ExampleFolder ==
  { <<"a", ".", "p", "n", "g">>, <<"B", ".", "J", "P", "G">>,
    <<"s", "k", "i", "p", ".", "t", "x", "t">> }

\* the figure_IDs of the index the manual indexer wrote last
ManualIds == FigureIds(Field(meta_dir[IndexName(last.paper_id)], "figures"))

\* the entries of the folder whose extension, in lower case, is png, jpg or jpeg
ImageEntries ==
  {p \in last.entries :
     \E ext \in { <<"p", "n", "g">>, <<"j", "p", "g">>, <<"j", "p", "e", "g">> } :
       Lower(Suffix(p)) = <<".">> \o ext}

\* C6 as stated: the figure list holds exactly the entries with an image
\* extension, and for a.png, B.JPG and skip.txt it is [a.png, B.JPG].
C6_AsStated ==
  ManualWrote =>
    /\ {ManualIds[i] : i \in 1..Len(ManualIds)} = ImageEntries
    /\ Len(ManualIds) = Cardinality(ImageEntries)
    /\ last.entries = ExampleFolder =>
         ManualIds = << <<"a", ".", "p", "n", "g">>, <<"B", ".", "J", "P", "G">> >>

\* C6 as amended: the figure list holds exactly the entries with an image
\* extension, each once, in the order of the platform's paths (by code point
\* on POSIX, without regard to case on Windows); for a.png, B.JPG and
\* skip.txt it is [B.JPG, a.png] on POSIX and [a.png, B.JPG] on Windows.
C6_ManualFigureList ==
  ManualWrote =>
    /\ {ManualIds[i] : i \in 1..Len(ManualIds)} = ImageEntries
    /\ Len(ManualIds) = Cardinality(ImageEntries)
    /\ \A i, j \in 1..Len(ManualIds) :
         i < j => IF platform = "posix"
                    THEN StrLess(ManualIds[i], ManualIds[j])
                    ELSE StrLess(Lower(ManualIds[i]), Lower(ManualIds[j]))
    /\ last.entries = ExampleFolder =>
         ManualIds =
           IF platform = "posix"
             THEN << <<"B", ".", "J", "P", "G">>, <<"a", ".", "p", "n", "g">> >>
             ELSE << <<"a", ".", "p", "n", "g">>, <<"B", ".", "J", "P", "G">> >>

\* the manual indexer has indexed the folder of the example on POSIX
C6_Witness ==
  /\ ManualWrote
  /\ last.entries = ExampleFolder
  /\ platform = "posix"
  /\ Len(ManualIds) = 2

\* the lines of a font report, blank lines at its ends not counted
ReportLines(out) == SplitLines(Strip(out))

\* C7: is_digital_pdf says digital exactly if the font report has more than
\* 2 lines, says scanned when pdffonts fails (a non-zero status with no
\* output, or no start of the tool at all), and never raises.
C7_ClassifierNeverRaises ==
  last.op = "classify" =>
    /\ ~last.raised
    /\ last.digital = (Len(ReportLines(last.out)) > 2)
    /\ (last.code # 0 /\ last.out = <<>>) => ~last.digital

\* the index file the last step wrote
WrittenIndex ==
  meta_dir[IndexName(IF last.op = "manual" THEN last.paper_id ELSE Stem(last.pdf))]

\* the last step wrote an index file
IndexWritten ==
  \/ last.op = "extract" /\ last.raised = "no"
  \/ ManualWrote

\* C8: an index file that build_index_json or build_from_images has just
\* written holds nothing of the file it replaced: its paper_title and its
\* captions are "" and its figures are those of the call.
C8_FullReplace ==
  IndexWritten =>
    LET figures == Field(WrittenIndex, "figures")
    IN  /\ Field(WrittenIndex, "paper_title") = ""
        /\ \A i \in 1..Len(figures) : Field(figures[i], "caption") = ""
        /\ FigureIds(figures) =
             IF last.op = "manual" THEN ImageFiles(platform, last.entries)
             ELSE FigureIds(last.figures)

\* an index with an edited title has been written again by the extraction
C8_Witness ==
  /\ last.op = "extract"
  /\ last.raised = "no"
  /\ last.before = "edited"
  /\ Field(WrittenIndex, "paper_title") = ""

\* C9: for the same paper ID, a PDF named {paper_id}.pdf and the same figure
\* file names, build_index_json and build_from_images write the same items
\* in the same order.
C9_SameRecordOnBothPaths ==
  /\ (last.op = "extract" /\ last.raised = "no"
        /\ last.pdf = Stem(last.pdf) \o <<".", "p", "d", "f">>) =>
       WrittenIndex =
         ManualRecord(Stem(last.pdf),
                      ManualFigures(Stem(last.pdf), FigureIds(last.figures)))
  /\ ManualWrote =>
       LET image_files == FigureIds(Field(WrittenIndex, "figures"))
       IN  WrittenIndex =
             IndexRecord(last.paper_id \o <<".", "p", "d", "f">>, last.paper_id,
                         [i \in 1..Len(image_files) |->
                            ExtractedFigure(last.paper_id, image_files[i])])

\* the extraction has written an index with at least one figure
C9_Witness ==
  /\ Extracted
  /\ last.pdf = Stem(last.pdf) \o <<".", "p", "d", "f">>
  /\ last.figures # <<>>
  /\ FigureIds(Field(WrittenIndex, "figures")) = FigureIds(last.figures)

\* C10: an OCR run in which ocrmypdf fails and writes nothing is reported
\* as a failure, also when an earlier run left an output file.
C10_FailedRunReported ==
  (OcrReturned /\ last.code # 0 /\ last.effect = "none") =>
    (~last.ok /\ last.printed = "error")

====
